---- MODULE Spec2Model ----
(***************************************************************************)
(* A model of tfrbm.RBM (src/tfrbm/rbm.py): a Restricted Boltzmann Machine *)
(* trained by CD-1 with momentum.  The model object, its six variables     *)
(* (w, visible_bias, hidden_bias and the three delta_* accumulators), the  *)
(* checkpoint files written by save_weights, and the frame of a running    *)
(* fit call are the state; every public method is an action.               *)
(*                                                                         *)
(* Numbers.  A float32 value is modelled by an exact rational              *)
(* [n |-> numerator, d |-> denominator] in lowest terms with d > 0, or by  *)
(* NaN ([n |-> 0, d |-> 0]), which every operation propagates.  Rounding   *)
(* of float32 arithmetic is not modelled.                                  *)
(*                                                                         *)
(* Tensors.  A rank-1 tensor is a sequence of numbers, a rank-2 tensor a   *)
(* sequence of rows; tf.shape(t)[0] is Len(t) for both.                    *)
(***************************************************************************)
EXTENDS Integers, Sequences, FiniteSets, TLC

(* ------------------------------ numbers ------------------------------- *)

Abs(i) == IF i < 0 THEN -i ELSE i

RECURSIVE GCD(_, _)
GCD(a, b) == IF b = 0 THEN a ELSE GCD(b, a % b)

NaN == [n |-> 0, d |-> 0]

IsNaN(a) == a.d = 0

\* The rational p/q (q # 0) in lowest terms with a positive denominator.
Rat(p, q) ==
    LET g == GCD(Abs(p), Abs(q))
        s == IF q < 0 THEN -1 ELSE 1
    IN  [n |-> (s * p) \div g, d |-> (s * q) \div g]

Zero == Rat(0, 1)
One == Rat(1, 1)
Half == Rat(1, 2)

RNeg(a) == [n |-> -a.n, d |-> a.d]

\* The sum over the least common denominator.
RAdd(a, b) ==
    IF IsNaN(a) \/ IsNaN(b) THEN NaN
    ELSE LET g == GCD(a.d, b.d)
         IN  Rat(a.n * (b.d \div g) + b.n * (a.d \div g), (a.d \div g) * b.d)

RSub(a, b) == RAdd(a, RNeg(b))

\* The product, common factors cancelled first.
RMul(a, b) ==
    IF IsNaN(a) \/ IsNaN(b) THEN NaN
    ELSE LET g1 == GCD(Abs(a.n), b.d)
             g2 == GCD(Abs(b.n), a.d)
         IN  Rat((a.n \div g1) * (b.n \div g2), (a.d \div g2) * (b.d \div g1))

\* a / b in IEEE arithmetic; only 0/0 (= NaN) occurs with a zero divisor here.
RDiv(a, b) ==
    IF IsNaN(a) \/ IsNaN(b) \/ b.n = 0 THEN NaN
    ELSE RMul(a, Rat(b.d, b.n))
\* a < b; false when either side is NaN, as in IEEE arithmetic.
RLess(a, b) == ~IsNaN(a) /\ ~IsNaN(b) /\ a.n * b.d < b.n * a.d
RLeq(a, b) == ~IsNaN(a) /\ ~IsNaN(b) /\ a.n * b.d <= b.n * a.d

RECURSIVE RSum(_)
RSum(s) == IF s = <<>> THEN Zero ELSE RAdd(s[1], RSum(Tail(s)))

(* ------------------------------ tensors ------------------------------- *)

\* The sequence f[1], ..., f[len], built entry by entry.
RECURSIVE Tabulate(_, _)
Tabulate(f, len) == IF len = 0 THEN <<>> ELSE Append(Tabulate(f, len - 1), f[len])

Vec(len, v) == Tabulate([i \in 1..len |-> v], len)
Mat(rows, cols, v) == Tabulate([i \in 1..rows |-> Vec(cols, v)], rows)

\* tf.zeros(shape)
zeros1(len) == Vec(len, Zero)
zeros2(rows, cols) == Mat(rows, cols, Zero)

VAdd(a, b) == Tabulate([i \in 1..Len(a) |-> RAdd(a[i], b[i])], Len(a))
VSub(a, b) == Tabulate([i \in 1..Len(a) |-> RSub(a[i], b[i])], Len(a))
MAdd(a, b) == Tabulate([i \in 1..Len(a) |-> VAdd(a[i], b[i])], Len(a))
MSub(a, b) == Tabulate([i \in 1..Len(a) |-> VSub(a[i], b[i])], Len(a))

\* tf.transpose(m) of a rows x cols matrix (cols is given: m may have no rows).
transpose(m, cols) ==
    Tabulate([j \in 1..cols |-> Tabulate([i \in 1..Len(m) |-> m[i][j]], Len(m))], cols)

\* tf.matmul(a, b), a of shape [Len(a), inner], b of shape [inner, cols].
matmul(a, b, inner, cols) ==
    Tabulate([i \in 1..Len(a) |->
                Tabulate([j \in 1..cols |->
                            RSum(Tabulate([k \in 1..inner |-> RMul(a[i][k], b[k][j])], inner))],
                         cols)],
             Len(a))

\* m + bias, the bias broadcast over the rows of m.
AddBias(m, bias) == Tabulate([i \in 1..Len(m) |-> VAdd(m[i], bias)], Len(m))

\* tf.reduce_mean(m, 0): the mean of each column; 0/0 = NaN when m has no rows.
reduce_mean0(m, cols) ==
    Tabulate([j \in 1..cols |->
                RDiv(RSum(Tabulate([i \in 1..Len(m) |-> m[i][j]], Len(m))), Rat(Len(m), 1))],
             cols)

\* tf.nn.sigmoid, abstracted to three levels: it keeps sigmoid(0) = 1/2, the
\* range [0, 1], monotonicity and the float32 saturation to 0 and 1.
sigmoid(a) ==
    IF IsNaN(a) THEN NaN
    ELSE IF a.n = 0 THEN Half
    ELSE IF a.n > 0 THEN One ELSE Zero

MSigmoid(m) ==
    Tabulate([i \in 1..Len(m) |->
                Tabulate([j \in 1..Len(m[i]) |-> sigmoid(m[i][j])], Len(m[i]))],
             Len(m))

(* ------------- tfrbm.util, imported by rbm.py (line 6) ---------------- *)

\* sample_bernoulli(probs): 1 where probs exceeds a uniform draw, else 0.  The
\* draw u of the random source is an input; one draw serves the whole tensor.
bernoulli(p, u) == IF IsNaN(p) THEN NaN ELSE IF RLess(u, p) THEN One ELSE Zero

sample_bernoulli(probs, u) ==
    Tabulate([i \in 1..Len(probs) |->
                Tabulate([j \in 1..Len(probs[i]) |-> bernoulli(probs[i][j], u)],
                         Len(probs[i]))],
             Len(probs))

\* sample_gaussian(x, sigma): x plus normal noise of deviation sigma; z is the
\* standard-normal draw, one draw serving the whole tensor.
sample_gaussian(x, sigma, z) ==
    Tabulate([i \in 1..Len(x) |->
                Tabulate([j \in 1..Len(x[i]) |-> RAdd(x[i][j], RMul(sigma, z))], Len(x[i]))],
             Len(x))

\* tf_xavier_init(n_visible, n_hidden, const): entries uniform in [-b, b] with
\* b = const * sqrt(6 / (n_visible + n_hidden)).  The draws offered are the
\* members of XavierCandidates inside that interval (v^2 * (nv + nh) <= 6 c^2).
XavierCandidates == {Rat(-1, 1), Rat(1, 1)}

tf_xavier_init(n_visible, n_hidden, const) ==
    {Mat(n_visible, n_hidden, v) : v \in
        {c \in XavierCandidates :
            RLeq(RMul(RMul(c, c), Rat(n_visible + n_hidden, 1)),
                 RMul(Rat(6, 1), RMul(const, const)))}}

(* --------------------------- the RBM object ---------------------------- *)

NoModel == [constructed |-> FALSE]

\* The draws one run of the training graph consumes: u for the Bernoulli
\* hidden sample, zh and zv for the Gaussian hidden and visible samples.
Uniforms == {Rat(1, 4), Rat(3, 4)}
Normals == {Rat(-1, 1), Rat(1, 1)}
Draws == [u : Uniforms, zh : Normals, zv : Normals]

\* The draws a model of the given unit types reads (the others are fixed, so
\* that unused draws make no difference).
DrawsFor(self) ==
    {r \in Draws :
        /\ (self.t_hidden = "b" => r.zh = Rat(1, 1))
        /\ (self.t_hidden = "g" => r.u = Rat(1, 4))
        /\ (self.t_visible = "b" => r.zv = Rat(1, 1))}

\* rbm.py 71-77: hidden probabilities and sample given the visible layer.
hidden_aux(self, x) ==
    AddBias(matmul(x, self.w, self.n_visible, self.n_hidden), self.hidden_bias)

hidden_p(self, x) ==
    IF self.t_hidden = "b" THEN MSigmoid(hidden_aux(self, x)) ELSE hidden_aux(self, x)

hidden_s(self, hp, r) ==
    IF self.t_hidden = "b"
    THEN sample_bernoulli(hp, r.u)
    ELSE sample_gaussian(hp, self.sigma, r.zh)

\* rbm.py 80-85: the reconstruction of the visible layer from the sample hs.
visible_recon_p(self, hs, r) ==
    LET aux == AddBias(matmul(hs, transpose(self.w, self.n_hidden),
                              self.n_hidden, self.n_visible),
                       self.visible_bias)
    IN  IF self.t_visible = "b" THEN MSigmoid(aux)
        ELSE sample_gaussian(aux, self.sigma, r.zv)

\* rbm.py 88-93: the hidden layer given the reconstruction vr (no resampling).
hidden_recon_p(self, vr) ==
    LET aux == AddBias(matmul(vr, self.w, self.n_visible, self.n_hidden),
                       self.hidden_bias)
    IN  IF self.t_hidden = "b" THEN MSigmoid(aux) ELSE aux

\* rbm.py 96-98
positive_grad(self, x, hp) ==
    matmul(transpose(x, self.n_visible), hp, Len(x), self.n_hidden)

negative_grad(self, vr, hr) ==
    matmul(transpose(vr, self.n_visible), hr, Len(vr), self.n_hidden)

\* The three raw gradients handed to f (rbm.py 104-108) for the batch x.
RawGradients(self, x, r) ==
    LET hp == hidden_p(self, x)
        hs == hidden_s(self, hp, r)
        vr == visible_recon_p(self, hs, r)
        hr == hidden_recon_p(self, vr)
    IN  [w |-> MSub(positive_grad(self, x, hp), negative_grad(self, vr, hr)),
         visible_bias |-> reduce_mean0(MSub(x, vr), self.n_visible),
         hidden_bias |-> reduce_mean0(MSub(hp, hr), self.n_hidden)]

\* rbm.py 100-102, one entry: shape0 is tf.to_float(tf.shape(x_new)[0]).
f_entry(self, old, new, shape0) ==
    RAdd(RMul(self.momentum, old),
         RDiv(RMul(RMul(self.learning_rate, new), RSub(One, self.momentum)),
              Rat(shape0, 1)))

\* rbm.py 100-102 on a rank-1 and on a rank-2 tensor: the divisor is the
\* first dimension of x_new itself.
f1(self, x_old, x_new) ==
    Tabulate([i \in 1..Len(x_new) |-> f_entry(self, x_old[i], x_new[i], Len(x_new))],
             Len(x_new))

f2(self, x_old, x_new) ==
    Tabulate([i \in 1..Len(x_new) |->
                Tabulate([j \in 1..Len(x_new[i]) |->
                            f_entry(self, x_old[i][j], x_new[i][j], Len(x_new))],
                         Len(x_new[i]))],
             Len(x_new))

\* rbm.py 104-108: the new momentum deltas, from the raw gradients g.
delta_w_new(self, g) == f2(self, self.delta_w, g.w)
delta_visible_bias_new(self, g) == f1(self, self.delta_visible_bias, g.visible_bias)
delta_hidden_bias_new(self, g) == f1(self, self.delta_hidden_bias, g.hidden_bias)

\* rbm.py 110-112 (update_deltas): the values assigned to the accumulators.
update_delta_w(self, delta_new) == delta_new
update_delta_visible_bias(self, delta_new) == delta_new
update_delta_hidden_bias(self, delta_new) == delta_new

\* The weights moved by the accumulator of the step before.
update_w_stale(self, delta_new) == MAdd(self.w, self.delta_w)

\* rbm.py 114-118 (update_weights): the values assigned to the parameters.
update_w(self, delta_new) == MAdd(self.w, delta_new)
update_visible_bias(self, delta_new) == VAdd(self.visible_bias, delta_new)
update_hidden_bias(self, delta_new) == VAdd(self.hidden_bias, delta_new)

\* rbm.py 182-183: one run of update_weights + update_deltas, g being the raw
\* gradients of the batch fed.  All six assignments read the variables' values
\* from before the run: each depends on a delta_*_new tensor, which depends on
\* every read of the variable it assigns.
partial_fit(self, g) ==
    LET dw == delta_w_new(self, g)
        dv == delta_visible_bias_new(self, g)
        dh == delta_hidden_bias_new(self, g)
    IN  [self EXCEPT
            !.w = update_w(self, dw),
            !.visible_bias = update_visible_bias(self, dv),
            !.hidden_bias = update_hidden_bias(self, dh),
            !.delta_w = update_delta_w(self, dw),
            !.delta_visible_bias = update_delta_visible_bias(self, dv),
            !.delta_hidden_bias = update_delta_hidden_bias(self, dh)]

\* rbm.py 128-132 and 135-147: the deterministic encoder and decoder.
compute_hidden(self, x) ==
    IF self.t_hidden = "b" THEN MSigmoid(hidden_aux(self, x)) ELSE hidden_aux(self, x)

compute_visible(self, x) ==
    LET aux == AddBias(matmul(compute_hidden(self, x),
                              transpose(self.w, self.n_hidden),
                              self.n_hidden, self.n_visible),
                       self.visible_bias)
    IN  IF self.t_visible = "b" THEN MSigmoid(aux) ELSE aux

\* rbm.py 155-161.  The mean squared error is computed; the cosine error,
\* acos(mean row cosine) / pi, is kept as the term over its two arguments.
compute_err(self, x) ==
    LET v == compute_visible(self, x)
    IN  IF self.err_function = "cosine"
        THEN [acos_mean_cosine_over_pi |-> <<x, v>>]
        ELSE LET d == MSub(x, v)
                 sq == Tabulate([i \in 1..Len(x) |->
                                    RSum(Tabulate([j \in 1..self.n_visible |->
                                                    RMul(d[i][j], d[i][j])],
                                                  self.n_visible))],
                                Len(x))
             IN  RDiv(RSum(sq), Rat(Len(x) * self.n_visible, 1))

\* rbm.py 167-168
get_err(self, batch_x) == compute_err(self, batch_x)

\* rbm.py 246-249
get_weights(self) == <<self.w, self.visible_bias, self.hidden_bias>>

\* set_weights that also clears the momentum accumulators.
set_weights_reset(self, w, visible_bias, hidden_bias) ==
    [self EXCEPT !.w = w, !.visible_bias = visible_bias, !.hidden_bias = hidden_bias,
                 !.delta_w = zeros2(self.n_visible, self.n_hidden),
                 !.delta_visible_bias = zeros1(self.n_visible),
                 !.delta_hidden_bias = zeros1(self.n_hidden)]

\* rbm.py 257-260
set_weights(self, w, visible_bias, hidden_bias) ==
    [self EXCEPT !.w = w, !.visible_bias = visible_bias, !.hidden_bias = hidden_bias]

\* rbm.py 252-254 and 263-265: what the Saver writes and reads, keyed by the
\* name prefix and the suffix of each variable.
SaverKeys(name) == {<<name, "_w">>, <<name, "_v">>, <<name, "_h">>}

\* The three variables a Saver of this model handles, with their shapes.
SaverVars(self) ==
    [_w |-> [shape |-> <<self.n_visible, self.n_hidden>>, value |-> self.w],
     _v |-> [shape |-> <<self.n_visible>>, value |-> self.visible_bias],
     _h |-> [shape |-> <<self.n_hidden>>, value |-> self.hidden_bias]]

\* rbm.py 251-255: the checkpoint saver.save writes.
save_weights(self, name) == [k \in SaverKeys(name) |-> SaverVars(self)[k[2]]]

\* rbm.py 262-266: saver.restore.  A key missing from the checkpoint, or a
\* stored shape that differs from the variable's, fails the restore.
RestoreError(self, ckpt, name) ==
    IF ~(SaverKeys(name) \subseteq DOMAIN ckpt) THEN "NotFoundError"
    ELSE IF \E k \in SaverKeys(name) : ckpt[k].shape # SaverVars(self)[k[2]].shape
    THEN "InvalidArgumentError"
    ELSE "None"

\* A restore whose Saver lacks the hidden bias.
Restored_no_hidden_bias(self, ckpt, name, done) ==
    [self EXCEPT
        !.w = IF "_w" \in done THEN ckpt[<<name, "_w">>].value ELSE @,
        !.visible_bias = IF "_v" \in done THEN ckpt[<<name, "_v">>].value ELSE @]

\* The model after the restore ops of the suffixes in `done` have run.
Restored(self, ckpt, name, done) ==
    [self EXCEPT
        !.w = IF "_w" \in done THEN ckpt[<<name, "_w">>].value ELSE @,
        !.visible_bias = IF "_v" \in done THEN ckpt[<<name, "_v">>].value ELSE @,
        !.hidden_bias = IF "_h" \in done THEN ckpt[<<name, "_h">>].value ELSE @]

\* The outcomes of load_weights.  A successful restore assigns all three
\* variables.  A failed one raises after any subset of the restore ops whose
\* key and shape are right has run: the ops of one session run are unordered.
load_weights(self, ckpt, name) ==
    LET err == RestoreError(self, ckpt, name)
        good == {sfx \in {"_w", "_v", "_h"} :
                    /\ <<name, sfx>> \in DOMAIN ckpt
                    /\ ckpt[<<name, sfx>>].shape = SaverVars(self)[sfx].shape}
    IN  IF err = "None"
        THEN {[raised |-> "None", self |-> Restored(self, ckpt, name, {"_w", "_v", "_h"})]}
        ELSE {[raised |-> err, self |-> Restored(self, ckpt, name, done)] :
                done \in SUBSET good}

(* ------------------------------- inputs -------------------------------- *)

MaxRows == 3
MaxSteps == 2
MaxCalls == 2
MaxApiCalls == 3

VisibleSizes == {1, 2}
HiddenSizes == {1}
UnitTags == {"b", "g", "x"}
ErrFunctions == {"mse", "cosine", "x"}
Momenta == {Rat(-1, 2), Zero, Half, One, Rat(3, 2)}
LearningRates == {Half}
Sigmas == {One}
XavierConsts == {One}
EpochCounts == {-1, 0, 1, 2}
BatchSizes == {-1, 0, 1, 2}
FileNames == {"rbm.ckpt"}
Names == {"a", "b"}

\* Row i of a caller's dataset of n_visible binary features: the binary digits
\* of i - 1, so that with two features four rows in a row are all different.
Row(i, n_visible) ==
    Tabulate([j \in 1..n_visible |->
                IF ((i - 1) \div (2 ^ (j - 1))) % 2 = 1 THEN One ELSE Zero],
             n_visible)

\* The datasets and batches a caller passes: 0..MaxRows rows of n_visible columns.
DataSets(n_visible) ==
    {Tabulate([i \in 1..n |-> Row(i, n_visible)], n) : n \in 0..MaxRows}

\* The parameter triples a caller passes to set_weights.
WeightChoices(self) ==
    {<<Mat(self.n_visible, self.n_hidden, a), Vec(self.n_visible, b), Vec(self.n_hidden, c)>> :
        <<a, b, c>> \in {<<One, Half, Zero>>, <<Zero, One, Half>>}}

\* What the file holds when the program starts: the weights an earlier run
\* saved under the name "a" from a model of 2 visible units and 1 hidden unit.
OldCheckpoint ==
    [k \in SaverKeys("a") |->
        IF k[2] = "_w" THEN [shape |-> <<2, 1>>, value |-> Mat(2, 1, Half)]
        ELSE IF k[2] = "_v" THEN [shape |-> <<2>>, value |-> Vec(2, One)]
        ELSE [shape |-> <<1>>, value |-> Vec(1, Zero)]]

(* -------------------------------- state -------------------------------- *)

VARIABLES
    self,     \* the RBM object the caller holds (NoModel before construction)
    files,    \* the checkpoints on disk: file name -> saved tensors
    fit,      \* the frame of the running fit call ([pc |-> "idle"] when none)
    raised,   \* the exception the last call raised ("None" when it returned)
    ret,      \* the value the last call returned
    call,     \* the last call made: its name, its arguments, the call before it
    cd,       \* the last run of the training graph: its rows, its raw gradients
              \* and the object before it
    steps,    \* the runs of the training graph so far
    left      \* the calls the program has still to make

vars == <<self, files, fit, raised, ret, call, cd, steps, left>>

IdleFit == [pc |-> "idle"]
NoReturn == "None"

\* The program starts with no object.
Init ==
    /\ self = NoModel
    /\ files = [fn \in FileNames |-> OldCheckpoint]
    /\ fit = IdleFit
    /\ raised = "None"
    /\ ret = NoReturn
    /\ call = [op |-> "none"]
    /\ cd = [rows |-> 0]
    /\ steps = 0
    /\ left = MaxCalls

\* A call can be made: no call is running (the object has one caller), and no
\* exception has ended the program.
CanCall == fit.pc = "idle" /\ raised = "None" /\ left > 0

(* ------------------------------ __init__ ------------------------------- *)

\* rbm.py 21-38: the exception __init__ raises, if any.  `tqdm` is a local name
\* of __init__ (line 37 binds it), so line 36 reads it unbound when use_tqdm
\* is false; with use_tqdm true the import of line 37 needs the package.
InitError(a, tqdm_installed) ==
    IF ~(RLeq(Zero, a.momentum) /\ RLeq(a.momentum, One)) THEN "ValueError"
    ELSE IF a.err_function \notin {"mse", "cosine"} THEN "ValueError"
    ELSE IF a.t_visible \notin {"b", "g"} THEN "ValueError"
    ELSE IF a.t_hidden \notin {"b", "g"} THEN "ValueError"
    ELSE IF ~a.use_tqdm THEN "UnboundLocalError"
    ELSE IF ~tqdm_installed THEN "ImportError"
    ELSE "None"

\* rbm.py 40-62 and 163-165: the object after the variables are initialised.
NewModel(a, w) ==
    [constructed |-> TRUE,
     use_tqdm |-> a.use_tqdm,
     n_visible |-> a.n_visible,
     n_hidden |-> a.n_hidden,
     learning_rate |-> a.learning_rate,
     momentum |-> a.momentum,
     sigma |-> a.sigma,
     t_visible |-> a.t_visible,
     t_hidden |-> a.t_hidden,
     err_function |-> a.err_function,
     w |-> w,
     visible_bias |-> zeros1(a.n_visible),
     hidden_bias |-> zeros1(a.n_hidden),
     delta_w |-> zeros2(a.n_visible, a.n_hidden),
     delta_visible_bias |-> zeros1(a.n_visible),
     delta_hidden_bias |-> zeros1(a.n_hidden)]

\* The arguments a caller passes.  Models with both layers Gaussian are left
\* out: their parameters grow as a polynomial of degree five with every
\* training step.
ConstructArgs ==
    {a \in [n_visible : VisibleSizes, n_hidden : HiddenSizes,
            t_visible : UnitTags, t_hidden : UnitTags,
            sigma : Sigmas, learning_rate : LearningRates, momentum : Momenta,
            xavier_const : XavierConsts, err_function : ErrFunctions,
            use_tqdm : BOOLEAN] :
        ~(a.t_visible = "g" /\ a.t_hidden = "g")}

\* RBM(...): rbm.py 10-165, the first call of the program.  A failed
\* construction leaves no object.
Construct ==
    /\ CanCall /\ ~self.constructed
    /\ \E a \in ConstructArgs, tqdm_installed \in BOOLEAN :
        LET err == InitError(a, tqdm_installed)
        IN  /\ raised' = err
            /\ call' = [op |-> "__init__", prev |-> call.op, args |-> a,
                        tqdm_installed |-> tqdm_installed]
            /\ IF err = "None"
               THEN \E w \in tf_xavier_init(a.n_visible, a.n_hidden, a.xavier_const) :
                        self' = NewModel(a, w)
               ELSE self' = self
    /\ ret' = NoReturn
    /\ left' = left - 1
    /\ UNCHANGED <<files, fit, cd, steps>>

(* ----------------------- the methods but fit --------------------------- *)

\* rbm.py 182-183, called by the user.
PartialFit ==
    /\ CanCall /\ self.constructed /\ steps < MaxSteps
    /\ \E x \in DataSets(self.n_visible), r \in DrawsFor(self) :
        LET g == RawGradients(self, x, r)
        IN  /\ self' = partial_fit(self, g)
            /\ cd' = [rows |-> Len(x), g |-> g, before |-> self]
    /\ call' = [op |-> "partial_fit", prev |-> call.op]
    /\ raised' = "None"
    /\ ret' = NoReturn
    /\ steps' = steps + 1
    /\ left' = left - 1
    /\ UNCHANGED <<files, fit>>

\* rbm.py 246-249
GetWeights ==
    /\ CanCall /\ self.constructed
    /\ ret' = get_weights(self)
    /\ call' = [op |-> "get_weights", prev |-> call.op]
    /\ raised' = "None"
    /\ left' = left - 1
    /\ UNCHANGED <<self, files, fit, cd, steps>>

\* rbm.py 257-260
SetWeights ==
    /\ CanCall /\ self.constructed
    /\ \E t \in WeightChoices(self) :
        /\ self' = set_weights(self, t[1], t[2], t[3])
        /\ call' = [op |-> "set_weights", prev |-> call.op, args |-> t]
    /\ raised' = "None"
    /\ ret' = NoReturn
    /\ left' = left - 1
    /\ UNCHANGED <<files, fit, cd, steps>>

\* rbm.py 251-255
SaveWeights ==
    /\ CanCall /\ self.constructed
    /\ \E filename \in FileNames, name \in Names :
        /\ files' = [files EXCEPT ![filename] = save_weights(self, name)]
        /\ call' = [op |-> "save_weights", prev |-> call.op,
                    filename |-> filename, name |-> name]
        /\ ret' = filename
    /\ raised' = "None"
    /\ left' = left - 1
    /\ UNCHANGED <<self, fit, cd, steps>>

\* rbm.py 262-266
LoadWeights ==
    /\ CanCall /\ self.constructed
    /\ \E filename \in FileNames, name \in Names :
        /\ \E out \in load_weights(self, files[filename], name) :
            /\ self' = out.self
            /\ raised' = out.raised
        /\ call' = [op |-> "load_weights", prev |-> call.op,
                    filename |-> filename, name |-> name]
    /\ ret' = NoReturn
    /\ left' = left - 1
    /\ UNCHANGED <<files, fit, cd, steps>>

(* --------------------------------- fit --------------------------------- *)

\* A Python slice bound on a sequence of n items: a negative bound counts from
\* the end, and the result is clipped to 0..n.
SliceBound(i, n) ==
    LET k == IF i < 0 THEN i + n ELSE i
    IN  IF k < 0 THEN 0 ELSE IF k > n THEN n ELSE k

\* seq[start:stop] of Python (0-based, stop excluded).
PySlice(seq, start, stop) ==
    LET lo == SliceBound(start, Len(seq))
        hi == SliceBound(stop, Len(seq))
    IN  IF hi <= lo THEN <<>> ELSE SubSeq(seq, lo + 1, hi)

\* n_batches without the batch of the remaining rows.
n_batches_floor(n_data, batch_size) ==
    IF batch_size > 0 THEN n_data \div batch_size ELSE 1

\* rbm.py 195-199
n_batches(n_data, batch_size) ==
    IF batch_size > 0
    THEN (n_data \div batch_size) + (IF n_data % batch_size = 0 THEN 0 ELSE 1)
    ELSE 1

\* The slice started at row b instead of row b * batch_size.
batch_x_stride1(data_x_cpy, b, batch_size) ==
    PySlice(data_x_cpy, b, b + batch_size)

\* rbm.py 226: the rows of batch b.
batch_x(data_x_cpy, b, batch_size) ==
    PySlice(data_x_cpy, b * batch_size, (b + 1) * batch_size)

\* rbm.py 217: np.random.shuffle(inds) leaves any permutation of inds.
shuffle_inds(inds) ==
    {Tabulate([i \in 1..Len(inds) |-> inds[p[i]]], Len(inds)) :
        p \in Permutations(1..Len(inds))}

\* rbm.py 218: data_x_cpy[inds], a new array (inds holds 0-based row numbers).
take_rows(data_x_cpy, inds) ==
    Tabulate([i \in 1..Len(inds) |-> data_x_cpy[inds[i] + 1]], Len(inds))

\* rbm.py 203: np.arange(n_data)
arange(n) == Tabulate([i \in 1..n |-> i - 1], n)

\* rbm.py 242: np.hstack([errs, epoch_errs])
hstack(errs, epoch_errs) == errs \o epoch_errs

\* The assertion with zero epochs let through.
fit_assert_nonneg(n_epoches) == n_epoches >= 0

\* rbm.py 191: the condition asserted.
fit_assert(n_epoches) == n_epoches > 0

\* The error taken on the variables as the update found them.
session_before_step(before, after) == before

\* rbm.py 227-228: get_err runs after partial_fit has returned, so it reads
\* the variables as the update left them (`after`), not as it found them.
session_at_get_err(before, after) == after

\* rbm.py 185-207: the call, up to the loop.  The assert of line 191 ends the
\* call before anything else runs.  The call is made only when the run budget
\* lets all its gradient steps happen.
FitCall ==
    /\ CanCall /\ self.constructed
    /\ \E data_x \in DataSets(self.n_visible), n_epoches \in EpochCounts,
          batch_size \in BatchSizes, shuffle \in BOOLEAN :
        LET n_data == Len(data_x)
            nb == n_batches(n_data, batch_size)
        IN  /\ call' = [op |-> "fit", prev |-> call.op, n_epoches |-> n_epoches,
                        n_data |-> n_data, batch_size |-> batch_size]
            /\ IF ~fit_assert(n_epoches)
               THEN /\ raised' = "AssertionError"
                    /\ fit' = fit
               ELSE /\ steps + n_epoches * nb <= MaxSteps
                    /\ raised' = "None"
                    /\ fit' = [pc |-> "epoch",
                               data_x |-> data_x,
                               n_epoches |-> n_epoches,
                               batch_size |-> batch_size,
                               shuffle |-> shuffle,
                               n_data |-> n_data,
                               n_batches |-> nb,
                               data_x_cpy |-> data_x,
                               inds |-> IF shuffle THEN arange(n_data) ELSE <<>>,
                               errs |-> <<>>,
                               e |-> 0,
                               b |-> 0,
                               epoch_errs |-> <<>>,
                               epoch_errs_ptr |-> 0,
                               batch_x |-> <<>>,
                               log |-> <<>>]
    /\ ret' = NoReturn
    /\ left' = left - 1
    /\ UNCHANGED <<self, files, cd, steps>>

\* rbm.py 209-220: the head of one epoch.
FitEpochBegin ==
    /\ fit.pc = "epoch" /\ fit.e < fit.n_epoches
    /\ \E inds \in (IF fit.shuffle THEN shuffle_inds(fit.inds) ELSE {fit.inds}) :
        fit' = [fit EXCEPT
                    !.pc = "batch",
                    !.epoch_errs = zeros1(fit.n_batches),
                    !.epoch_errs_ptr = 0,
                    !.inds = inds,
                    !.data_x_cpy = IF fit.shuffle THEN take_rows(fit.data_x_cpy, inds) ELSE @,
                    !.b = 0]
    /\ UNCHANGED <<self, files, raised, ret, call, cd, steps, left>>

\* rbm.py 225-227: the batch is sliced and the gradient step taken on it.
FitBatchStep ==
    /\ fit.pc = "batch" /\ fit.b < fit.n_batches
    /\ LET x == batch_x(fit.data_x_cpy, fit.b, fit.batch_size)
       IN  /\ \E r \in DrawsFor(self) :
                LET g == RawGradients(self, x, r)
                IN  /\ self' = partial_fit(self, g)
                    /\ cd' = [rows |-> Len(x), g |-> g, before |-> self]
           /\ fit' = [fit EXCEPT
                        !.pc = "err",
                        !.batch_x = x,
                        !.log = Append(@, [kind |-> "step", e |-> fit.e, b |-> fit.b,
                                           batch_x |-> x])]
    /\ steps' = steps + 1
    /\ UNCHANGED <<files, raised, ret, call, left>>

\* rbm.py 228-230: the error of the same batch is taken and recorded.
FitBatchErr ==
    /\ fit.pc = "err"
    /\ LET batch_err == get_err(session_at_get_err(cd.before, self), fit.batch_x)
       IN  fit' = [fit EXCEPT
                    !.pc = "batch",
                    !.epoch_errs[fit.epoch_errs_ptr + 1] = batch_err,
                    !.epoch_errs_ptr = @ + 1,
                    !.b = @ + 1,
                    !.log = Append(@, [kind |-> "err", e |-> fit.e, b |-> fit.b,
                                       batch_x |-> fit.batch_x, err |-> batch_err])]
    /\ UNCHANGED <<self, files, raised, ret, call, cd, steps, left>>

\* rbm.py 232-242: the end of one epoch.
FitEpochEnd ==
    /\ fit.pc = "batch" /\ fit.b = fit.n_batches
    /\ fit' = [fit EXCEPT
                !.pc = "epoch",
                !.errs = hstack(@, fit.epoch_errs),
                !.e = @ + 1]
    /\ UNCHANGED <<self, files, raised, ret, call, cd, steps, left>>

\* rbm.py 244
FitReturn ==
    /\ fit.pc = "epoch" /\ fit.e = fit.n_epoches
    /\ ret' = fit.errs
    /\ fit' = IdleFit
    /\ UNCHANGED <<self, files, raised, call, cd, steps, left>>

Next ==
    \/ Construct
    \/ PartialFit
    \/ GetWeights
    \/ SetWeights
    \/ SaveWeights
    \/ LoadWeights
    \/ FitCall
    \/ FitEpochBegin
    \/ FitBatchStep
    \/ FitBatchErr
    \/ FitEpochEnd
    \/ FitReturn

Spec == Init /\ [][Next]_vars

(* ------------------- programs that start after __init__ ---------------- *)

\* The state Construct leaves when it succeeds with arguments a and draws w,
\* with `n` calls still to make.
Constructed(a, w, n) ==
    /\ self = NewModel(a, w)
    /\ files = [fn \in FileNames |-> OldCheckpoint]
    /\ fit = IdleFit
    /\ raised = "None"
    /\ ret = NoReturn
    /\ call = [op |-> "__init__", prev |-> "none", args |-> a, tqdm_installed |-> TRUE]
    /\ cd = [rows |-> 0]
    /\ steps = 0
    /\ left = n

\* The initial weights these programs start from: the positive draws.
PositiveDraws(ws) == {w \in ws : RLess(Zero, w[1][1])}

\* The arguments __init__ accepts.
ValidArgs == {a \in ConstructArgs : InitError(a, TRUE) = "None"}

\* A program that trains by partial_fit and reads, writes, saves and loads
\* the weights of a model it has built.
ApiArgs ==
    {a \in ValidArgs :
        /\ a.err_function = "mse" /\ a.t_hidden = "b"
        /\ a.momentum \in {Zero, Half}}

InitApi ==
    \E a \in ApiArgs :
        \E w \in PositiveDraws(tf_xavier_init(a.n_visible, a.n_hidden, a.xavier_const)) :
            Constructed(a, w, MaxApiCalls)

NextApi ==
    \/ PartialFit
    \/ GetWeights
    \/ SetWeights
    \/ SaveWeights
    \/ LoadWeights

SpecApi == InitApi /\ [][NextApi]_vars

\* A program that trains a model it has built by calls of fit.
FitArgs ==
    {a \in ValidArgs :
        /\ a.n_visible = 2 /\ a.momentum = Half
        /\ a.t_visible = "b" /\ a.t_hidden = "b" /\ a.err_function = "mse"}

InitFit ==
    \E a \in FitArgs :
        \E w \in PositiveDraws(tf_xavier_init(a.n_visible, a.n_hidden, a.xavier_const)) :
            Constructed(a, w, MaxCalls)

NextFit ==
    \/ FitCall
    \/ FitEpochBegin
    \/ FitBatchStep
    \/ FitBatchErr
    \/ FitEpochEnd
    \/ FitReturn

SpecFit == InitFit /\ [][NextFit]_vars


(* ------------------------------ properties ----------------------------- *)

\* The object has taken a gradient step as its last change of the training
\* state, and `cd` describes that step.
Stepped == steps > 0 /\ self.constructed

\* The gradient step is the last thing that happened to the object: the user's
\* partial_fit has just returned, or fit stands between lines 227 and 228.
JustStepped ==
    /\ Stepped
    /\ \/ fit.pc = "err"
       \/ fit.pc = "idle" /\ call.op = "partial_fit"

\* The momentum rule as section 4.4 of the specification writes it, for one
\* entry: momentum * old + learning_rate * (1 - momentum) * grad / rows.
MomentumRule(m, old, grad, rows) ==
    RAdd(RMul(m.momentum, old),
         RDiv(RMul(RMul(m.learning_rate, RSub(One, m.momentum)), grad),
              Rat(rows, 1)))

MomentumRule1(m, old, grad, rows) ==
    Tabulate([i \in 1..Len(grad) |-> MomentumRule(m, old[i], grad[i], rows)],
             Len(grad))

MomentumRule2(m, old, grad, rows) ==
    Tabulate([i \in 1..Len(grad) |-> MomentumRule1(m, old[i], grad[i], rows)],
             Len(grad))

\* C1: after a gradient step every accumulator is
\* momentum * previous accumulator + learning_rate * (1 - momentum) * raw
\* gradient / (number of rows of the batch), for W, the visible bias and the
\* hidden bias alike.
C1_DivisorIsBatchRows ==
    (Stepped /\ cd.rows > 0) =>
        /\ self.delta_w =
               MomentumRule2(cd.before, cd.before.delta_w, cd.g.w, cd.rows)
        /\ self.delta_visible_bias =
               MomentumRule1(cd.before, cd.before.delta_visible_bias,
                             cd.g.visible_bias, cd.rows)
        /\ self.delta_hidden_bias =
               MomentumRule1(cd.before, cd.before.delta_hidden_bias,
                             cd.g.hidden_bias, cd.rows)

\* C3: with a batch size of zero or less an epoch has one batch, and the
\* gradient step and the error evaluation of that batch see every row of the
\* data set.
C3_NonPositiveBatchSizeIsFullBatch ==
    (fit.pc # "idle" /\ fit.batch_size <= 0) =>
        /\ fit.n_batches = 1
        /\ fit.pc = "err" =>
            /\ Len(fit.batch_x) = fit.n_data
            /\ fit.batch_x = fit.data_x_cpy
            /\ cd.rows = fit.n_data

\* The exceptions that report an invalid argument.
InvalidArgument == {"ValueError", "AssertionError"}

\* The arguments the constructor must reject.
BadArgs(a) ==
    \/ ~(RLeq(Zero, a.momentum) /\ RLeq(a.momentum, One))
    \/ a.err_function \notin {"mse", "cosine"}
    \/ a.t_visible \notin {"b", "g"}
    \/ a.t_hidden \notin {"b", "g"}

\* C4: construction fails with an invalid-argument error exactly when the
\* momentum is outside [0, 1], the error mode is not mse or cosine, or a unit
\* type is not Bernoulli or Gaussian; every other construction completes, the
\* default without a progress bar included, with the biases and the three
\* accumulators zero.
C4_ConstructFailsExactlyOnBadArgs ==
    (call.op = "__init__" /\ call.tqdm_installed) =>
        IF BadArgs(call.args)
        THEN raised \in InvalidArgument /\ ~self.constructed
        ELSE /\ raised = "None"
             /\ self.constructed
             /\ self.visible_bias = zeros1(call.args.n_visible)
             /\ self.hidden_bias = zeros1(call.args.n_hidden)
             /\ self.delta_w = zeros2(call.args.n_visible, call.args.n_hidden)
             /\ self.delta_visible_bias = zeros1(call.args.n_visible)
             /\ self.delta_hidden_bias = zeros1(call.args.n_hidden)


\* ceil(n / k) for k > 0
CeilDiv(n, k) == (n + k - 1) \div k

IsStep(ev) == ev.kind = "step"
IsErr(ev) == ev.kind = "err"

\* fit returns: the step from line 244 back to the caller.
Returning == fit.pc = "epoch" /\ fit'.pc = "idle"

\* C2: fit with E > 0 epochs and a batch size bs > 0 on n rows takes
\* E * ceil(n / bs) gradient steps and returns E * ceil(n / bs) errors, one per
\* step, ordered by epoch and, within an epoch, by batch.
C2_FitReturnsOneErrorPerBatch ==
    [][(Returning /\ fit.batch_size > 0) =>
        LET nb == CeilDiv(fit.n_data, fit.batch_size)
            total == fit.n_epoches * nb
            stepped == SelectSeq(fit.log, IsStep)
            recorded == SelectSeq(fit.log, IsErr)
        IN  /\ Len(ret') = total
            /\ Len(stepped) = total
            /\ Len(recorded) = total
            /\ \A i \in 1..total :
                /\ stepped[i].e = (i - 1) \div nb
                /\ stepped[i].b = (i - 1) % nb
                /\ recorded[i].e = (i - 1) \div nb
                /\ recorded[i].b = (i - 1) % nb
                /\ ret'[i] = recorded[i].err]_vars

\* fit has returned the errors of two batches of one epoch, the second batch
\* being the short one.
C2_Witness ==
    /\ call.op = "fit" /\ fit.pc = "idle" /\ raised = "None"
    /\ call.n_epoches = 1 /\ call.n_data = 3 /\ call.batch_size = 2
    /\ Len(ret) = 2
    /\ steps = 2

\* C5: fit called with zero or fewer epochs fails with an invalid-argument
\* error before any gradient step; parameters and accumulators stay as they
\* were and no error history is returned.
C5_NonPositiveEpochsRejected ==
    [][(call'.op = "fit" /\ left' = left - 1 /\ call'.n_epoches <= 0) =>
        /\ raised' \in InvalidArgument
        /\ fit'.pc = "idle"
        /\ steps' = steps
        /\ self' = self
        /\ cd' = cd
        /\ ret' = NoReturn]_vars

\* A trained object was given zero or fewer epochs.
C5_Witness ==
    /\ call.op = "fit" /\ call.n_epoches <= 0
    /\ raised = "AssertionError"
    /\ steps > 0
    /\ self.delta_w # zeros2(self.n_visible, self.n_hidden)


\* C8: after every gradient step each parameter is its value before the step
\* plus the new delta, and the accumulator stored is that delta, computed from
\* the accumulator the previous step left; no batch, epoch or fit boundary
\* resets an accumulator.
C8_ParametersMoveByStoredDelta ==
    Stepped =>
        /\ self.delta_w = f2(cd.before, cd.before.delta_w, cd.g.w)
        /\ self.delta_visible_bias =
               f1(cd.before, cd.before.delta_visible_bias, cd.g.visible_bias)
        /\ self.delta_hidden_bias =
               f1(cd.before, cd.before.delta_hidden_bias, cd.g.hidden_bias)
        /\ JustStepped =>
            /\ self.w = MAdd(cd.before.w, self.delta_w)
            /\ self.visible_bias =
                   VAdd(cd.before.visible_bias, self.delta_visible_bias)
            /\ self.hidden_bias =
                   VAdd(cd.before.hidden_bias, self.delta_hidden_bias)

\* The first gradient step of a second fit call started from the accumulator
\* the first call left, and moved the weights by a delta that differs from it.
C8_Witness ==
    /\ call.op = "fit" /\ call.prev = "fit" /\ fit.pc = "err"
    /\ fit.e = 0 /\ fit.b = 0
    /\ cd.before.delta_w # zeros2(self.n_visible, self.n_hidden)
    /\ self.delta_w # cd.before.delta_w
    /\ self.w # cd.before.w

\* C9: inside fit every batch gets its gradient step and then the error of the
\* same batch, taken with the parameters that step left; the next step starts
\* only after that error is recorded.
C9_StepThenErrorOfSameBatch ==
    fit.pc # "idle" =>
        LET log == fit.log
            n == Len(log)
        IN  /\ \A i \in 1..n :
                IF i % 2 = 1
                THEN log[i].kind = "step"
                ELSE /\ log[i].kind = "err"
                     /\ log[i].e = log[i - 1].e
                     /\ log[i].b = log[i - 1].b
                     /\ log[i].batch_x = log[i - 1].batch_x
            /\ (fit.pc = "err") <=> (n % 2 = 1)
            /\ (n > 0 /\ n % 2 = 0) =>
                /\ self = partial_fit(cd.before, cd.g)
                /\ cd.rows = Len(log[n].batch_x)
                /\ log[n].err = get_err(self, log[n].batch_x)

\* Two batches of one epoch have been stepped and measured, and the error
\* recorded for the second is not the one its step's starting parameters give.
C9_Witness ==
    /\ fit.pc = "batch" /\ fit.b = 2
    /\ Len(fit.log) = 4
    /\ fit.log[4].err # get_err(cd.before, fit.log[4].batch_x)

\* s is t with its rows in some order.
IsPermutationOf(s, t) ==
    /\ Len(s) = Len(t)
    /\ \E p \in Permutations(1..Len(t)) : \A i \in 1..Len(t) : s[i] = t[p[i]]

\* The rows of the batches the steps of epoch e were taken on, in batch order.
RECURSIVE RowsStepped(_, _)
RowsStepped(log, e) ==
    IF log = <<>> THEN <<>>
    ELSE (IF log[1].kind = "step" /\ log[1].e = e THEN log[1].batch_x ELSE <<>>)
         \o RowsStepped(Tail(log), e)

\* The batches of the running epoch, for a positive batch size.
Batching ==
    LET bs == fit.batch_size
        n == fit.n_data
        inEpoch == fit.pc \in {"batch", "err"}
    IN  /\ IsPermutationOf(fit.data_x_cpy, fit.data_x)
        /\ ~fit.shuffle => fit.data_x_cpy = fit.data_x
        /\ inEpoch =>
            /\ \A i \in 1..Len(fit.log) :
                (fit.log[i].kind = "step" /\ fit.log[i].e = fit.e) =>
                    LET b == fit.log[i].b
                        last == IF (b + 1) * bs < n THEN (b + 1) * bs ELSE n
                    IN  /\ fit.log[i].batch_x = SubSeq(fit.data_x_cpy, b * bs + 1, last)
                        /\ Len(fit.log[i].batch_x) >= 1
                        /\ b < fit.n_batches - 1 => Len(fit.log[i].batch_x) = bs
            /\ (fit.pc = "batch" /\ fit.b = fit.n_batches) =>
                RowsStepped(fit.log, fit.e) = fit.data_x_cpy

\* C10: with a positive batch size the batches of an epoch are consecutive
\* slices of the data set's rows in the epoch's order (a permutation of the
\* rows, the original order without shuffling), every row is in exactly one
\* gradient step of the epoch, only the last batch may be short, and the
\* caller's data set is never changed.
C10_BatchesPartitionTheRows ==
    [][(fit'.pc # "idle" /\ fit'.batch_size > 0) =>
        /\ Batching'
        /\ fit.pc # "idle" => fit'.data_x = fit.data_x]_vars

\* A shuffled epoch over three rows in an order that is not the caller's has
\* stepped on its second batch, the short one.
C10_Witness ==
    /\ fit.pc = "err" /\ fit.shuffle
    /\ fit.n_data = 3 /\ fit.batch_size = 2 /\ fit.b = 1
    /\ fit.data_x_cpy # fit.data_x
    /\ Len(fit.batch_x) = 1
    /\ fit.data_x = Tabulate([i \in 1..3 |-> Row(i, 2)], 3)


\* The three momentum accumulators of a model.
Accumulators(m) == <<m.delta_w, m.delta_visible_bias, m.delta_hidden_bias>>

\* C6: set_weights(W0, v0, h0) makes the three parameters exactly W0, v0 and
\* h0 and leaves the accumulators as they were; get_weights called right after
\* it returns exactly (W0, v0, h0).
C6_SetWeightsThenGetWeights ==
    [][/\ call'.op = "set_weights" =>
            /\ self'.w = call'.args[1]
            /\ self'.visible_bias = call'.args[2]
            /\ self'.hidden_bias = call'.args[3]
            /\ Accumulators(self') = Accumulators(self)
       /\ (call.op = "set_weights" /\ call'.op = "get_weights") =>
            ret' = call.args]_vars

\* get_weights has answered right after a set_weights that replaced the
\* weights a gradient step had left, the accumulators of that step still there.
C6_Witness ==
    /\ call.op = "get_weights" /\ call.prev = "set_weights"
    /\ steps > 0
    /\ self.delta_w # zeros2(self.n_visible, self.n_hidden)
    /\ self.delta_w = f2(cd.before, cd.before.delta_w, cd.g.w)
    /\ self.w # MAdd(cd.before.w, self.delta_w)
    /\ ret = <<self.w, self.visible_bias, self.hidden_bias>>

\* The shapes of the three parameters of a model, by suffix.
ShapeOf(m, sfx) ==
    IF sfx = "_w" THEN <<m.n_visible, m.n_hidden>>
    ELSE IF sfx = "_v" THEN <<m.n_visible>>
    ELSE <<m.n_hidden>>

\* The checkpoint was saved under `name` by a model of the shape of m.
SavedBySameShape(ckpt, name, m) ==
    \A sfx \in {"_w", "_v", "_h"} :
        /\ <<name, sfx>> \in DOMAIN ckpt
        /\ ckpt[<<name, sfx>>].shape = ShapeOf(m, sfx)

\* C7: save_weights persists W, the visible bias and the hidden bias under the
\* given name and nothing else; load_weights with that name on a model of the
\* same shape makes the three parameters exactly the saved ones, whatever
\* training or set_weights came between; the accumulators are neither saved
\* nor changed by the load.
C7_SaveThenLoadRestores ==
    [][/\ call'.op = "save_weights" =>
            LET ckpt == files'[call'.filename]
                name == call'.name
            IN  /\ DOMAIN ckpt = {<<name, "_w">>, <<name, "_v">>, <<name, "_h">>}
                /\ ckpt[<<name, "_w">>].value = self.w
                /\ ckpt[<<name, "_v">>].value = self.visible_bias
                /\ ckpt[<<name, "_h">>].value = self.hidden_bias
                /\ self' = self
       /\ call'.op # "save_weights" => files' = files
       /\ call'.op = "load_weights" =>
            LET ckpt == files[call'.filename]
                name == call'.name
            IN  /\ Accumulators(self') = Accumulators(self)
                /\ SavedBySameShape(ckpt, name, self) =>
                    /\ raised' = "None"
                    /\ self'.w = ckpt[<<name, "_w">>].value
                    /\ self'.visible_bias = ckpt[<<name, "_v">>].value
                    /\ self'.hidden_bias = ckpt[<<name, "_h">>].value]_vars

\* A model saved its weights, took a gradient step and loaded them back: the
\* weights are those from before the step, the accumulators those of the step.
C7_Witness ==
    /\ call.op = "load_weights" /\ call.prev = "partial_fit"
    /\ raised = "None"
    /\ files[call.filename] # OldCheckpoint
    /\ self.w = cd.before.w
    /\ self.visible_bias = cd.before.visible_bias
    /\ self.hidden_bias = cd.before.hidden_bias
    /\ self.delta_w # zeros2(self.n_visible, self.n_hidden)
    /\ self.delta_w = f2(cd.before, cd.before.delta_w, cd.g.w)
    /\ self.hidden_bias # VAdd(cd.before.hidden_bias, self.delta_hidden_bias)

====
